---- MODULE Spec2Model ----
(***************************************************************************)
(* Model of the shortcuts registry of react-shortcuts-provider             *)
(* (src/src/ShortCuts/registry/shortcutsRegistry.ts): the raw registry     *)
(* map, the zustand store snapshot, the debounce timer, the key-combo      *)
(* parser/matcher and the keydown dispatch handler.                        *)
(*                                                                         *)
(* Representation.                                                         *)
(*  - A JavaScript string is a sequence of one-character strings.          *)
(*  - A JavaScript Map is a sequence of <<key, value>> pairs in insertion  *)
(*    order; a plain object is such a sequence too, enumerated in          *)
(*    OrdinaryOwnPropertyKeys order (array-index keys first, ascending).   *)
(*  - A JavaScript number used as `order` is a pair <<hi, lo>> standing    *)
(*    for hi * 2^27 + lo, so that Number.MAX_SAFE_INTEGER = 2^53 - 1 is    *)
(*    exact; `undefined` is the empty tuple.                               *)
(*  - An optional boolean flag of KeyCombination is FALSE when absent.     *)
(*  - An action callback is identified by the number of the register call  *)
(*    that passed it (every call passes a fresh closure).                  *)
(***************************************************************************)
EXTENDS Integers, Sequences, FiniteSets, TLC

VARIABLES
    shortcutsRegistry,  \* Map<category, Map<name, ShortcutEntry>>
    version,            \* store.version
    shortcuts,          \* store.shortcuts : Record<category, ShortcutEntry[]>
    notifications,      \* number of times the store has called its listeners
    updateTimer,        \* module variable updateTimer (0 = null, else a timer id)
    pendingTimers,      \* timer ids the host still has to fire
    timerCount,         \* number of window.setTimeout calls made so far
    registerCount,      \* number of registerShortcut calls made so far
    handlerMounted,     \* useKeyboardShortcutHandler's keydown listener is attached
    lastOp,             \* the call or event handled by the last step, with its outcome
    mEvent,             \* matcher harness: the KeyboardEvent
    mCombo,             \* matcher harness: the keyCombo string
    mDone,              \* matcher harness: matchesKeyCombo has been evaluated
    mParsed,            \* matcher harness: parseKeyCombo(mCombo)
    mResult,            \* matcher harness: matchesKeyCombo(mEvent, mCombo)
    providerMounted,    \* a ShortcutsProvider is rendered
    showShortcuts       \* the provider's showShortcuts state

vars == <<shortcutsRegistry, version, shortcuts, notifications, updateTimer,
          pendingTimers, timerCount, registerCount, handlerMounted, lastOp,
          mEvent, mCombo, mDone, mParsed, mResult, providerMounted, showShortcuts>>

registryVars == <<shortcutsRegistry, version, shortcuts, notifications, updateTimer,
                  pendingTimers, timerCount, registerCount, handlerMounted, lastOp>>

registryVarsButLastOp ==
    <<shortcutsRegistry, version, shortcuts, notifications, updateTimer,
      pendingTimers, timerCount, registerCount, handlerMounted>>

matcherVars == <<mEvent, mCombo, mDone, mParsed, mResult>>

providerVars == <<providerMounted, showShortcuts>>

(***************************************************************************)
(* Strings                                                                 *)
(***************************************************************************)
UpperLetters ==
    <<"A","B","C","D","E","F","G","H","I","J","K","L","M",
      "N","O","P","Q","R","S","T","U","V","W","X","Y","Z">>

LowerLetters ==
    <<"a","b","c","d","e","f","g","h","i","j","k","l","m",
      "n","o","p","q","r","s","t","u","v","w","x","y","z">>

WhiteSpace == {" ", "\t", "\n"}

\* the lower-case letter of each upper-case letter
LowerOfUpper == [u \in {UpperLetters[i] : i \in 1..Len(UpperLetters)} |->
                   LowerLetters[CHOOSE i \in 1..Len(UpperLetters) : UpperLetters[i] = u]]

\* String.prototype.toLowerCase, one character
lowerChar(ch) == IF ch \in DOMAIN LowerOfUpper THEN LowerOfUpper[ch] ELSE ch

\* String.prototype.toLowerCase
toLowerCase(s) == [i \in 1..Len(s) |-> lowerChar(s[i])]

\* String.prototype.split(sep) for a one-character separator:
\* always at least one part, empty parts are kept
RECURSIVE splitFrom(_, _, _, _)
splitFrom(s, sep, i, cur) ==
    IF i > Len(s) THEN <<cur>>
    ELSE IF s[i] = sep THEN <<cur>> \o splitFrom(s, sep, i + 1, <<>>)
    ELSE splitFrom(s, sep, i + 1, Append(cur, s[i]))

split(s, sep) == splitFrom(s, sep, 1, <<>>)

\* String.prototype.trim
RECURSIVE trimStart(_)
trimStart(s) ==
    IF s # <<>> /\ Head(s) \in WhiteSpace THEN trimStart(Tail(s)) ELSE s

RECURSIVE trimEnd(_)
trimEnd(s) ==
    IF s # <<>> /\ s[Len(s)] \in WhiteSpace
    THEN trimEnd(SubSeq(s, 1, Len(s) - 1)) ELSE s

\* a trim that strips leading white space only
trimStartOnly(s) == trimStart(s)

trim(s) == trimEnd(trimStart(s))

(***************************************************************************)
(* parseKeyCombo / matchesKeyCombo                                         *)
(***************************************************************************)
\* const result: KeyCombination = { key: '' }
emptyCombination ==
    [key |-> <<>>, ctrlKey |-> FALSE, shiftKey |-> FALSE,
     altKey |-> FALSE, metaKey |-> FALSE]

\* a switch whose default case keeps a key already found
parsePartFirstWins(result, part) ==
    LET t == trim(part) IN
    IF t = <<"c","t","r","l">> \/ t = <<"c","o","n","t","r","o","l">>
        THEN [result EXCEPT !.ctrlKey = TRUE]
    ELSE IF t = <<"s","h","i","f","t">>
        THEN [result EXCEPT !.shiftKey = TRUE]
    ELSE IF t = <<"a","l","t">>
        THEN [result EXCEPT !.altKey = TRUE]
    ELSE IF t = <<"c","m","d">> \/ t = <<"m","e","t","a">>
        THEN [result EXCEPT !.metaKey = TRUE]
    ELSE IF result.key = <<>> THEN [result EXCEPT !.key = t] ELSE result

\* the body of the switch statement for one part
parsePart(result, part) ==
    LET t == trim(part) IN
    IF t = <<"c","t","r","l">> \/ t = <<"c","o","n","t","r","o","l">>
        THEN [result EXCEPT !.ctrlKey = TRUE]
    ELSE IF t = <<"s","h","i","f","t">>
        THEN [result EXCEPT !.shiftKey = TRUE]
    ELSE IF t = <<"a","l","t">>
        THEN [result EXCEPT !.altKey = TRUE]
    ELSE IF t = <<"c","m","d">> \/ t = <<"m","e","t","a">>
        THEN [result EXCEPT !.metaKey = TRUE]
    ELSE [result EXCEPT !.key = t]

\* for (const part of parts) { switch ... }
RECURSIVE parseParts(_, _)
parseParts(result, parts) ==
    IF parts = <<>> THEN result
    ELSE parseParts(parsePart(result, Head(parts)), Tail(parts))

parseKeyCombo(keyCombo) ==
    parseParts(emptyCombination, split(toLowerCase(keyCombo), "+"))

\* a normalisation that leaves 'escape' as it is
normalizeEventKeyNoEscape(key) ==
    LET k == toLowerCase(key) IN
    IF k = <<" ">> THEN <<"s","p","a","c","e">> ELSE k

\* let eventKey = event.key.toLowerCase(); ' ' -> 'space'; 'escape' -> 'esc'
normalizeEventKey(key) ==
    LET k == toLowerCase(key) IN
    IF k = <<" ">> THEN <<"s","p","a","c","e">>
    ELSE IF k = <<"e","s","c","a","p","e">> THEN <<"e","s","c">>
    ELSE k

\* a matcher that accepts extra modifiers on the event
matchesKeyComboSubset(event, keyCombo) ==
    LET combo       == parseKeyCombo(keyCombo)
        eventKey    == normalizeEventKey(event.key)
        keyMatches  == \/ eventKey = combo.key
                       \/ toLowerCase(event.code) = <<"k","e","y">> \o combo.key
        ctrlMatches  == combo.ctrlKey => (event.ctrlKey \/ event.metaKey)
        shiftMatches == combo.shiftKey => event.shiftKey
        altMatches   == combo.altKey => event.altKey
    IN keyMatches /\ ctrlMatches /\ shiftMatches /\ altMatches

\* a matcher that compares the combination's meta flag with event.metaKey
matchesKeyComboReadsMeta(event, keyCombo) ==
    LET combo       == parseKeyCombo(keyCombo)
        eventKey    == normalizeEventKey(event.key)
        keyMatches  == \/ eventKey = combo.key
                       \/ toLowerCase(event.code) = <<"k","e","y">> \o combo.key
        ctrlMatches  == combo.ctrlKey = event.ctrlKey
        metaMatches  == combo.metaKey = event.metaKey
        shiftMatches == combo.shiftKey = event.shiftKey
        altMatches   == combo.altKey = event.altKey
    IN keyMatches /\ ctrlMatches /\ metaMatches /\ shiftMatches /\ altMatches

matchesKeyCombo(event, keyCombo) ==
    LET combo       == parseKeyCombo(keyCombo)
        eventKey    == normalizeEventKey(event.key)
        keyMatches  == \/ eventKey = combo.key
                       \/ toLowerCase(event.code) = <<"k","e","y">> \o combo.key
        ctrlMatches  == combo.ctrlKey = (event.ctrlKey \/ event.metaKey)
        shiftMatches == combo.shiftKey = event.shiftKey
        altMatches   == combo.altKey = event.altKey
    IN keyMatches /\ ctrlMatches /\ shiftMatches /\ altMatches

(***************************************************************************)
(* Map and plain-object helpers                                            *)
(***************************************************************************)
MapHas(m, k) == \E i \in 1..Len(m) : m[i][1] = k

MapGet(m, k) == m[CHOOSE i \in 1..Len(m) : m[i][1] = k][2]

\* Map.prototype.set: an existing key keeps its position, a new key goes last
MapSetAppendAlways(m, k, v) == Append(m, <<k, v>>)

\* a Map.prototype.set that moves an existing key to the end
MapSetMovesToEnd(m, k, v) ==
    Append(SelectSeq(m, LAMBDA pair : pair[1] # k), <<k, v>>)

MapSet(m, k, v) ==
    IF MapHas(m, k)
    THEN [i \in 1..Len(m) |-> IF m[i][1] = k THEN <<k, v>> ELSE m[i]]
    ELSE Append(m, <<k, v>>)

\* Map.prototype.delete that removes nothing
MapDeleteNothing(m, k) == m

\* Map.prototype.delete
MapDelete(m, k) == SelectSeq(m, LAMBDA p : p[1] # k)

MapKeys(m) == [i \in 1..Len(m) |-> m[i][1]]

MapValues(m) == [i \in 1..Len(m) |-> m[i][2]]

\* Property names that are canonical array indices, with their numeric value.
\* An object enumerates these first, in ascending numeric order.
ArrayIndexValue == ("7" :> 7) @@ ("10" :> 10)

IsArrayIndex(k) == k \in DOMAIN ArrayIndexValue

RECURSIVE ascendingIndexKeys(_)
ascendingIndexKeys(ks) ==
    IF ks = {} THEN <<>>
    ELSE LET least == CHOOSE k \in ks :
                        \A o \in ks : ArrayIndexValue[k] <= ArrayIndexValue[o]
         IN <<least>> \o ascendingIndexKeys(ks \ {least})

\* an enumeration of the keys in creation order, whatever their names
ObjectKeysInCreationOrder(obj) == MapKeys(obj)

\* OrdinaryOwnPropertyKeys of an object held as <<key, value>> pairs in
\* property-creation order
ObjectKeys(obj) ==
    LET created == MapKeys(obj)
        indexKeys == {created[i] : i \in {j \in 1..Len(created) : IsArrayIndex(created[j])}}
    IN ascendingIndexKeys(indexKeys)
         \o SelectSeq(created, LAMBDA k : ~IsArrayIndex(k))

\* Object.values
ObjectValues(obj) ==
    LET ks == ObjectKeys(obj) IN [i \in 1..Len(ks) |-> MapGet(obj, ks[i])]

RECURSIVE flatten(_)
flatten(arrays) ==
    IF arrays = <<>> THEN <<>> ELSE Head(arrays) \o flatten(Tail(arrays))

(***************************************************************************)
(* Numbers used as `order`                                                 *)
(***************************************************************************)
Undefined == <<>>

Num(n) == <<0, n>>

\* Number.MAX_SAFE_INTEGER = 2^53 - 1 = (2^26 - 1) * 2^27 + (2^27 - 1)
MAX_SAFE_INTEGER == <<2^26 - 1, 2^27 - 1>>

\* 2^53, the next number a caller can pass
AboveMaxSafe == <<2^26, 0>>

\* the sign of x - y
signOfDifference(x, y) ==
    IF x[1] # y[1] THEN (IF x[1] < y[1] THEN -1 ELSE 1)
    ELSE IF x[2] # y[2] THEN (IF x[2] < y[2] THEN -1 ELSE 1)
    ELSE 0

\* a.order ?? Number.MAX_SAFE_INTEGER
orderOrMax(e) == IF e.order = Undefined THEN MAX_SAFE_INTEGER ELSE e.order

\* the comparator (a, b) => orderA - orderB, as its sign
compareByOrder(a, b) == signOfDifference(orderOrMax(a), orderOrMax(b))

\* a sort that places an element before the elements it compares equal to
RECURSIVE insertUnstable(_, _)
insertUnstable(sorted, e) ==
    IF sorted = <<>> THEN <<e>>
    ELSE IF compareByOrder(sorted[Len(sorted)], e) < 0 THEN Append(sorted, e)
    ELSE Append(insertUnstable(SubSeq(sorted, 1, Len(sorted) - 1), e),
                sorted[Len(sorted)])

\* Array.prototype.sort is stable: an element is placed after every element
\* that came before it and does not compare greater
RECURSIVE insertStable(_, _)
insertStable(sorted, e) ==
    IF sorted = <<>> THEN <<e>>
    ELSE IF compareByOrder(sorted[Len(sorted)], e) <= 0 THEN Append(sorted, e)
    ELSE Append(insertStable(SubSeq(sorted, 1, Len(sorted) - 1), e),
                sorted[Len(sorted)])

RECURSIVE sortFrom(_, _, _)
sortFrom(arr, i, sorted) ==
    IF i > Len(arr) THEN sorted
    ELSE sortFrom(arr, i + 1, insertStable(sorted, arr[i]))

sortByOrder(arr) == sortFrom(arr, 1, <<>>)

(***************************************************************************)
(* The registry, its snapshot and the debounce timer                       *)
(***************************************************************************)
\* Object.values(DEFAULT_SHORTCUT_CATEGORIES)
DEFAULT_SHORTCUT_CATEGORIES ==
    <<"navigation", "viewSettings", "tools", "editing", "custom">>

RECURSIVE withDefaultCategories(_, _)
withDefaultCategories(state, cats) ==
    IF cats = <<>> THEN state
    ELSE withDefaultCategories(MapSet(state, Head(cats), <<>>), Tail(cats))

\* the initial value of store.shortcuts
initialShortcuts == withDefaultCategories(<<>>, DEFAULT_SHORTCUT_CATEGORIES)

\* shortcutsRegistry.forEach((entryMap, category) => { ... })
RECURSIVE convertRegistry(_, _)
convertRegistry(state, registry) ==
    IF registry = <<>> THEN state
    ELSE LET category == Head(registry)[1]
             entryMap == Head(registry)[2]
             entries  == MapValues(entryMap)
         IN convertRegistry(MapSet(state, category, sortByOrder(entries)),
                            Tail(registry))

\* the shortcutsState object updateRegistry builds from the registry map
buildShortcutsState(registry) ==
    convertRegistry(withDefaultCategories(<<>>, DEFAULT_SHORTCUT_CATEGORIES),
                    registry)

\* an updateRegistry that increments the version without storing the new snapshot
updateRegistryVersionOnly ==
    /\ shortcuts' = shortcuts
    /\ version' = version + 1
    /\ notifications' = notifications + 1

\* an updateRegistry that adds the entries of the map to the arrays already
\* in the snapshot
updateRegistryOntoSnapshot ==
    /\ shortcuts' =
          LET built == buildShortcutsState(shortcutsRegistry)
          IN [i \in 1..Len(built) |->
                 << built[i][1],
                    (IF MapHas(shortcuts, built[i][1])
                     THEN MapGet(shortcuts, built[i][1]) ELSE <<>>) \o built[i][2] >>]
    /\ version' = version + 1
    /\ notifications' = notifications + Len(<<"setShortcuts", "incrementVersion">>)

\* the calls of the store's set function that updateRegistry makes, through
\* setShortcuts and incrementVersion; every call of set with a new state object
\* calls the listeners once
storeSetCalls == <<"setShortcuts", "incrementVersion">>

\* updateRegistry(): store.setShortcuts(shortcutsState); store.incrementVersion()
updateRegistry ==
    /\ shortcuts' = buildShortcutsState(shortcutsRegistry)
    /\ version' = version + 1
    /\ notifications' = notifications + Len(storeSetCalls)

\* a debouncedUpdateRegistry without the clearTimeout call
debouncedUpdateRegistryNoClear ==
    /\ timerCount' = timerCount + 1
    /\ updateTimer' = timerCount + 1
    /\ pendingTimers' = pendingTimers \cup {timerCount + 1}

\* debouncedUpdateRegistry(): clearTimeout of the remembered timer, then a new one
debouncedUpdateRegistry ==
    /\ timerCount' = timerCount + 1
    /\ updateTimer' = timerCount + 1
    /\ pendingTimers' =
         (IF updateTimer # 0 THEN pendingTimers \ {updateTimer} ELSE pendingTimers)
            \cup {timerCount + 1}

\* initRegistry(category), as the registry map after the call
initRegistry(registry, category) ==
    IF MapHas(registry, category) THEN registry
    ELSE MapSet(registry, category, <<>>)

\* getShortcuts(category): storeState.shortcuts[category] || []
\* names every plain object inherits from Object.prototype
ObjectPrototypeMembers == {"constructor", "toString", "valueOf", "hasOwnProperty"}

\* the function found under an inherited name: a value that is not an array and
\* is truthy, written as a one-element tuple naming it
InheritedMember(name) == << [native |-> name] >>

\* getShortcuts(category): storeState.shortcuts[category] || []
getShortcuts(category) ==
    IF MapHas(shortcuts, category) THEN MapGet(shortcuts, category)
    ELSE IF category \in ObjectPrototypeMembers THEN InheritedMember(category)
    ELSE <<>>

\* getShortcutCategories(): the keys of the snapshot whose array is not empty
getShortcutCategories ==
    SelectSeq(ObjectKeys(shortcuts), LAMBDA c : Len(MapGet(shortcuts, c)) > 0)

\* getAllShortcuts() that returns the flattened arrays as they are
allShortcutsUnsorted(snapshot) == flatten(ObjectValues(snapshot))

\* getAllShortcuts(), on a given snapshot object
allShortcutsOf(snapshot) == sortByOrder(flatten(ObjectValues(snapshot)))

getAllShortcuts == allShortcutsOf(shortcuts)

\* hasShortcut(category, name)
hasShortcut(category, name) ==
    /\ MapHas(shortcutsRegistry, category)
    /\ MapHas(MapGet(shortcutsRegistry, category), name)

(***************************************************************************)
(* Inputs                                                                  *)
(***************************************************************************)
\* the number of registerShortcut calls a behaviour makes
MaxRegistrations == 2

Ctrl_A  == <<"C","t","r","l","+","A">>
Shift_B == <<"S","h","i","f","t","+","B">>

\* (category, name) pairs the callers of the dispatch scenarios use
Slots ==
    { <<"navigation", "n1">>, <<"alpha", "n1">>, <<"alpha", "n2">> }

Categories == { s[1] : s \in Slots }

\* an optional argument that the caller passes
Given(value) == <<value>>

\* a parameter with a default value: enabled: boolean = true
defaultParameter(argument, default) ==
    IF argument = Undefined THEN default ELSE argument[1]

\* keyCombo, description, enabled and order arguments the callers pass
\* (enabled and order are optional; an omitted argument is Undefined)
Payloads ==
    { [keyCombo |-> Ctrl_A,  description |-> "select all", enabled |-> Undefined,
       order |-> Undefined],
      [keyCombo |-> Ctrl_A,  description |-> "off",        enabled |-> Given(FALSE),
       order |-> Num(1)],
      [keyCombo |-> Shift_B, description |-> "bold",       enabled |-> Given(TRUE),
       order |-> Num(1)] }

\* (category, name) pairs and arguments of the ordering scenarios
OrderSlots ==
    { <<"navigation", "n1">>, <<"alpha", "n1">>, <<"alpha", "n2">>, <<"7", "n1">> }

OrderCategories == { s[1] : s \in OrderSlots }

OrderPayloads ==
    { [keyCombo |-> Ctrl_A, description |-> "none",  enabled |-> Undefined,
       order |-> Undefined],
      [keyCombo |-> Ctrl_A, description |-> "one",   enabled |-> Given(TRUE),
       order |-> Num(1)],
      [keyCombo |-> Ctrl_A, description |-> "max",   enabled |-> Undefined,
       order |-> MAX_SAFE_INTEGER],
      [keyCombo |-> Ctrl_A, description |-> "above", enabled |-> Undefined,
       order |-> AboveMaxSafe] }

\* the interfaces handleKeyDown tests event.target against with instanceof
TextEntryTargets == {"HTMLInputElement", "HTMLTextAreaElement", "HTMLSelectElement"}

\* an event target: its interface and the value of its contentEditable
\* property ("undefined" for a target that is not an HTMLElement)
Target(interface, contentEditable) ==
    [interface |-> interface, contentEditable |-> contentEditable]

Document == Target("Document", "undefined")

InputElement == Target("HTMLInputElement", "inherit")

\* <div contenteditable="plaintext-only">
PlainTextEditableDiv == Target("HTMLDivElement", "plaintext-only")

KeyboardEvent(key, code, ctrl, shift, alt, meta, target) ==
    [key |-> key, code |-> code, ctrlKey |-> ctrl, shiftKey |-> shift,
     altKey |-> alt, metaKey |-> meta, target |-> target]

\* key-presses delivered to the window
KeyPresses ==
    { KeyboardEvent(<<"a">>, <<"K","e","y","A">>, TRUE, FALSE, FALSE, FALSE, Document),
      KeyboardEvent(<<"B">>, <<"K","e","y","B">>, FALSE, TRUE, FALSE, FALSE, Document),
      KeyboardEvent(<<"a">>, <<"K","e","y","A">>, TRUE, FALSE, FALSE, FALSE, InputElement),
      KeyboardEvent(<<"a">>, <<"K","e","y","A">>, TRUE, FALSE, FALSE, FALSE,
                    PlainTextEditableDiv) }

(***************************************************************************)
(* Operations                                                              *)
(***************************************************************************)
Init ==
    /\ shortcutsRegistry = <<>>
    /\ version = 0
    /\ notifications = 0
    /\ shortcuts = initialShortcuts
    /\ updateTimer = 0
    /\ pendingTimers = {}
    /\ timerCount = 0
    /\ registerCount = 0
    /\ handlerMounted = FALSE
    /\ lastOp = [op |-> "init"]
    /\ mEvent = KeyboardEvent(<<>>, <<>>, FALSE, FALSE, FALSE, FALSE, Document)
    /\ mCombo = <<>>
    /\ mDone = FALSE
    /\ mParsed = emptyCombination
    /\ mResult = FALSE
    /\ providerMounted = FALSE
    /\ showShortcuts = FALSE

\* registerShortcut(category, name, keyCombo, action, description, enabled, order),
\* in a behaviour that makes at most `limit` such calls
registerShortcutUpTo(limit, category, name, p) ==
    /\ registerCount < limit
    /\ LET shortcutEntry ==
               [name |-> name, keyCombo |-> p.keyCombo, description |-> p.description,
                action |-> registerCount + 1, category |-> category,
                enabled |-> defaultParameter(p.enabled, TRUE), order |-> p.order]
           initialised == initRegistry(shortcutsRegistry, category)
           registry == MapGet(initialised, category)
       IN /\ shortcutsRegistry' =
                MapSet(initialised, category, MapSet(registry, name, shortcutEntry))
          /\ lastOp' = [op |-> "registerShortcut", category |-> category,
                        name |-> name, enabledArgument |-> p.enabled,
                        entry |-> shortcutEntry]
    /\ registerCount' = registerCount + 1
    /\ debouncedUpdateRegistry
    /\ UNCHANGED <<version, shortcuts, notifications, handlerMounted>>
    /\ UNCHANGED matcherVars
    /\ UNCHANGED providerVars

registerShortcut(category, name, p) ==
    registerShortcutUpTo(MaxRegistrations, category, name, p)

\* an unregisterShortcut without the removal of a category that became empty
unregisterShortcutKeepsEmptyCategory(category, name) ==
    /\ lastOp' = [op |-> "unregisterShortcut", category |-> category, name |-> name]
    /\ IF ~MapHas(shortcutsRegistry, category)
       THEN UNCHANGED <<shortcutsRegistry, updateTimer, pendingTimers, timerCount>>
       ELSE LET registry == MapGet(shortcutsRegistry, category)
                deleted == MapHas(registry, name)
                remaining == MapDelete(registry, name)
            IN /\ shortcutsRegistry' = MapSet(shortcutsRegistry, category, remaining)
               /\ IF deleted
                  THEN debouncedUpdateRegistry
                  ELSE UNCHANGED <<updateTimer, pendingTimers, timerCount>>
    /\ UNCHANGED <<version, shortcuts, notifications, registerCount, handlerMounted>>
    /\ UNCHANGED matcherVars
    /\ UNCHANGED providerVars

\* an unregisterShortcut that schedules the recomputation whatever delete returned
unregisterShortcutAlwaysSchedules(category, name) ==
    /\ lastOp' = [op |-> "unregisterShortcut", category |-> category, name |-> name]
    /\ IF ~MapHas(shortcutsRegistry, category)
       THEN UNCHANGED <<shortcutsRegistry, updateTimer, pendingTimers, timerCount>>
       ELSE LET registry == MapGet(shortcutsRegistry, category)
                remaining == MapDelete(registry, name)
            IN /\ shortcutsRegistry' =
                     IF Len(remaining) = 0
                     THEN MapDelete(shortcutsRegistry, category)
                     ELSE MapSet(shortcutsRegistry, category, remaining)
               /\ debouncedUpdateRegistry
    /\ UNCHANGED <<version, shortcuts, notifications, registerCount, handlerMounted>>
    /\ UNCHANGED matcherVars
    /\ UNCHANGED providerVars

\* an unregisterShortcut that never schedules the recomputation
unregisterShortcutNeverSchedules(category, name) ==
    /\ lastOp' = [op |-> "unregisterShortcut", category |-> category, name |-> name]
    /\ IF ~MapHas(shortcutsRegistry, category)
       THEN UNCHANGED shortcutsRegistry
       ELSE LET registry == MapGet(shortcutsRegistry, category)
                remaining == MapDelete(registry, name)
            IN shortcutsRegistry' =
                  IF Len(remaining) = 0
                  THEN MapDelete(shortcutsRegistry, category)
                  ELSE MapSet(shortcutsRegistry, category, remaining)
    /\ UNCHANGED <<updateTimer, pendingTimers, timerCount>>
    /\ UNCHANGED <<version, shortcuts, notifications, registerCount, handlerMounted>>
    /\ UNCHANGED matcherVars
    /\ UNCHANGED providerVars

\* unregisterShortcut(category, name)
unregisterShortcut(category, name) ==
    /\ lastOp' = [op |-> "unregisterShortcut", category |-> category, name |-> name]
    /\ IF ~MapHas(shortcutsRegistry, category)
       THEN UNCHANGED <<shortcutsRegistry, updateTimer, pendingTimers, timerCount>>
       ELSE LET registry == MapGet(shortcutsRegistry, category)
                deleted == MapHas(registry, name)
                remaining == MapDelete(registry, name)
            IN /\ shortcutsRegistry' =
                     IF Len(remaining) = 0
                     THEN MapDelete(shortcutsRegistry, category)
                     ELSE MapSet(shortcutsRegistry, category, remaining)
               /\ IF deleted
                  THEN debouncedUpdateRegistry
                  ELSE UNCHANGED <<updateTimer, pendingTimers, timerCount>>
    /\ UNCHANGED <<version, shortcuts, notifications, registerCount, handlerMounted>>
    /\ UNCHANGED matcherVars
    /\ UNCHANGED providerVars

\* a clearShortcuts that empties the whole registry map
clearShortcutsClearsAll(category) ==
    /\ lastOp' = [op |-> "clearShortcuts", category |-> category]
    /\ shortcutsRegistry' =
          IF MapHas(shortcutsRegistry, category) THEN <<>> ELSE shortcutsRegistry
    /\ IF MapHas(shortcutsRegistry, category)
       THEN debouncedUpdateRegistry
       ELSE UNCHANGED <<updateTimer, pendingTimers, timerCount>>
    /\ UNCHANGED <<version, shortcuts, notifications, registerCount, handlerMounted>>
    /\ UNCHANGED matcherVars
    /\ UNCHANGED providerVars

\* clearShortcuts(category)
clearShortcuts(category) ==
    /\ lastOp' = [op |-> "clearShortcuts", category |-> category]
    /\ shortcutsRegistry' = MapDelete(shortcutsRegistry, category)
    /\ IF MapHas(shortcutsRegistry, category)
       THEN debouncedUpdateRegistry
       ELSE UNCHANGED <<updateTimer, pendingTimers, timerCount>>
    /\ UNCHANGED <<version, shortcuts, notifications, registerCount, handlerMounted>>
    /\ UNCHANGED matcherVars
    /\ UNCHANGED providerVars

\* the timer callback set by debouncedUpdateRegistry runs
timerFires(id) ==
    /\ id \in pendingTimers
    /\ pendingTimers' = pendingTimers \ {id}
    /\ updateRegistry
    /\ lastOp' = [op |-> "timer", id |-> id]
    /\ UNCHANGED <<shortcutsRegistry, updateTimer, timerCount, registerCount,
                   handlerMounted>>
    /\ UNCHANGED matcherVars
    /\ UNCHANGED providerVars

\* a mount whose effect cancels the pending timer instead of recomputing
mountHandlerCancelsTimer ==
    /\ ~handlerMounted
    /\ handlerMounted' = TRUE
    /\ pendingTimers' = pendingTimers \ {updateTimer}
    /\ lastOp' = [op |-> "mount", recomputed |-> Len(shortcutsRegistry) > 0]
    /\ UNCHANGED <<shortcutsRegistry, version, shortcuts, notifications, updateTimer,
                   timerCount, registerCount>>
    /\ UNCHANGED matcherVars
    /\ UNCHANGED providerVars

\* useKeyboardShortcutHandler() mounts: the effect of useShortcutsRegistry
\* runs updateRegistry once when the registry is not empty, and the keydown
\* listener is attached
mountHandler ==
    /\ ~handlerMounted
    /\ handlerMounted' = TRUE
    /\ IF Len(shortcutsRegistry) > 0
       THEN updateRegistry
       ELSE UNCHANGED <<version, shortcuts, notifications>>
    /\ lastOp' = [op |-> "mount", recomputed |-> Len(shortcutsRegistry) > 0]
    /\ UNCHANGED <<shortcutsRegistry, updateTimer, pendingTimers, timerCount,
                   registerCount>>
    /\ UNCHANGED matcherVars
    /\ UNCHANGED providerVars

\* an executeShortcut that does not test shortcut.enabled
executeShortcutIgnoresEnabled(category, name, throws) ==
    /\ LET found == hasShortcut(category, name)
           shortcut == MapGet(MapGet(shortcutsRegistry, category), name)
       IN IF found
          THEN lastOp' = [op |-> "executeShortcut", category |-> category,
                          name |-> name, invoked |-> <<shortcut>>,
                          threw |-> throws, propagated |-> FALSE,
                          result |-> ~throws]
          ELSE /\ ~throws
               /\ lastOp' = [op |-> "executeShortcut", category |-> category,
                             name |-> name, invoked |-> <<>>,
                             threw |-> FALSE, propagated |-> FALSE,
                             result |-> FALSE]
    /\ UNCHANGED <<shortcutsRegistry, version, shortcuts, notifications, updateTimer, pendingTimers,
                   timerCount, registerCount, handlerMounted>>
    /\ UNCHANGED matcherVars
    /\ UNCHANGED providerVars

\* executeShortcut(category, name); the action, when it runs, may throw
executeShortcut(category, name, throws) ==
    /\ LET found == hasShortcut(category, name)
           shortcut == MapGet(MapGet(shortcutsRegistry, category), name)
       IN IF found /\ shortcut.enabled
          THEN lastOp' = [op |-> "executeShortcut", category |-> category,
                          name |-> name, invoked |-> <<shortcut>>,
                          threw |-> throws, propagated |-> FALSE,
                          result |-> ~throws]
          ELSE /\ ~throws
               /\ lastOp' = [op |-> "executeShortcut", category |-> category,
                             name |-> name, invoked |-> <<>>,
                             threw |-> FALSE, propagated |-> FALSE,
                             result |-> FALSE]
    /\ UNCHANGED <<shortcutsRegistry, version, shortcuts, notifications, updateTimer, pendingTimers,
                   timerCount, registerCount, handlerMounted>>
    /\ UNCHANGED matcherVars
    /\ UNCHANGED providerVars

\* a for loop that a disabled entry bound to the pressed combination ends
RECURSIVE scanStopsAtDisabled(_, _, _)
scanStopsAtDisabled(allShortcuts, event, i) ==
    IF i > Len(allShortcuts) THEN <<>>
    ELSE IF matchesKeyCombo(event, allShortcuts[i].keyCombo)
         THEN IF allShortcuts[i].enabled THEN <<allShortcuts[i]>> ELSE <<>>
         ELSE scanStopsAtDisabled(allShortcuts, event, i + 1)

\* the for loop of handleKeyDown without its break statement
scanNoBreak(allShortcuts, event, i) ==
    SelectSeq(SubSeq(allShortcuts, i, Len(allShortcuts)),
              LAMBDA s : s.enabled /\ matchesKeyCombo(event, s.keyCombo))

\* the for loop of handleKeyDown scanning from the end of allShortcuts
RECURSIVE scanLastMatch(_, _, _)
scanLastMatch(allShortcuts, event, i) ==
    IF i > Len(allShortcuts) THEN <<>>
    ELSE LET later == scanLastMatch(allShortcuts, event, i + 1)
         IN IF later # <<>> THEN later
            ELSE IF allShortcuts[i].enabled
                      /\ matchesKeyCombo(event, allShortcuts[i].keyCombo)
                 THEN <<allShortcuts[i]>>
                 ELSE <<>>

\* the for loop of handleKeyDown over allShortcuts, from index i on:
\* the entries whose action is invoked
RECURSIVE scan(_, _, _)
scan(allShortcuts, event, i) ==
    IF i > Len(allShortcuts) THEN <<>>
    ELSE IF allShortcuts[i].enabled /\ matchesKeyCombo(event, allShortcuts[i].keyCombo)
         THEN <<allShortcuts[i]>>
         ELSE scan(allShortcuts, event, i + 1)

\* the instanceof / contentEditable guard of handleKeyDown
isTextEntryTarget(event) ==
    \/ event.target.interface \in TextEntryTargets
    \/ event.target.contentEditable = "true"

\* the calls of one dispatch with the action before the suppression of the event
effectsActionFirst(invoked) ==
    flatten([i \in 1..Len(invoked) |->
                << [call |-> "action", id |-> invoked[i].action],
                   [call |-> "preventDefault", id |-> 0],
                   [call |-> "stopPropagation", id |-> 0] >>])

\* the calls handleKeyDown makes for the entries it invokes, in program order
effectsOf(invoked) ==
    flatten([i \in 1..Len(invoked) |->
                << [call |-> "preventDefault", id |-> 0],
                   [call |-> "stopPropagation", id |-> 0],
                   [call |-> "action", id |-> invoked[i].action] >>])

\* a handler that suppresses every event that passes the guard
dispatchOutcomeAlwaysSuppresses(event, invoked, throws) ==
    [op |-> "keydown", event |-> event, invoked |-> invoked,
     effects |-> effectsOf(invoked),
     defaultPrevented |-> ~isTextEntryTarget(event),
     propagationStopped |-> ~isTextEntryTarget(event),
     threw |-> throws,
     propagated |-> FALSE]

\* a handler without the try/catch around the action
dispatchOutcomeRethrows(event, invoked, throws) ==
    [op |-> "keydown", event |-> event, invoked |-> invoked,
     effects |-> effectsOf(invoked),
     defaultPrevented |-> invoked # <<>>,
     propagationStopped |-> invoked # <<>>,
     threw |-> throws,
     propagated |-> throws]

\* what handleKeyDown does with the entries whose action it invokes:
\* preventDefault and stopPropagation before the action, the exception caught
dispatchOutcome(event, invoked, throws) ==
    [op |-> "keydown", event |-> event, invoked |-> invoked,
     effects |-> effectsOf(invoked),
     defaultPrevented |-> invoked # <<>>,
     propagationStopped |-> invoked # <<>>,
     threw |-> throws,
     propagated |-> FALSE]

\* a handler that takes the entry it invoked out of the snapshot
keyDownConsumesEntry(event, throws) ==
    /\ handlerMounted
    /\ IF isTextEntryTarget(event)
       THEN /\ ~throws
            /\ lastOp' = dispatchOutcome(event, <<>>, FALSE)
            /\ shortcuts' = shortcuts
       ELSE \E invoked \in {scan(getAllShortcuts, event, 1)} :
               /\ throws => invoked # <<>>
               /\ lastOp' = dispatchOutcome(event, invoked, throws)
               /\ shortcuts' =
                     [i \in 1..Len(shortcuts) |->
                         << shortcuts[i][1],
                            SelectSeq(shortcuts[i][2], LAMBDA e : <<e>> # invoked) >>]
    /\ UNCHANGED <<shortcutsRegistry, version, notifications, updateTimer, pendingTimers,
                   timerCount, registerCount, handlerMounted>>
    /\ UNCHANGED matcherVars
    /\ UNCHANGED providerVars

\* a keydown event reaches the window listener; the action, when one runs, may throw
keyDown(event, throws) ==
    /\ handlerMounted
    /\ IF isTextEntryTarget(event)
       THEN /\ ~throws
            /\ lastOp' = dispatchOutcome(event, <<>>, FALSE)
       ELSE \E invoked \in {scan(getAllShortcuts, event, 1)} :
               /\ throws => invoked # <<>>
               /\ lastOp' = dispatchOutcome(event, invoked, throws)
    /\ UNCHANGED <<shortcutsRegistry, version, shortcuts, notifications, updateTimer, pendingTimers,
                   timerCount, registerCount, handlerMounted>>
    /\ UNCHANGED matcherVars
    /\ UNCHANGED providerVars

Next ==
    \/ \E s \in Slots, p \in Payloads : registerShortcut(s[1], s[2], p)
    \/ \E s \in Slots : unregisterShortcut(s[1], s[2])
    \/ \E c \in Categories : clearShortcuts(c)
    \/ \E id \in pendingTimers : timerFires(id)
    \/ mountHandler
    \/ \E s \in Slots, throws \in BOOLEAN : executeShortcut(s[1], s[2], throws)
    \/ \E e \in KeyPresses, throws \in BOOLEAN : keyDown(e, throws)

Spec == Init /\ [][Next]_vars

\* the registry driven by callers that vary the order argument
NextOrder ==
    \/ \E s \in OrderSlots, p \in OrderPayloads : registerShortcut(s[1], s[2], p)
    \/ \E s \in OrderSlots : unregisterShortcut(s[1], s[2])
    \/ \E c \in OrderCategories : clearShortcuts(c)
    \/ \E id \in pendingTimers : timerFires(id)
    \/ mountHandler

SpecOrder == Init /\ [][NextOrder]_vars

(***************************************************************************)
(* The matcher on its own: matchesKeyCombo applied to one event and one    *)
(* combination string                                                      *)
(***************************************************************************)
\* keyCombo strings passed to matchesKeyCombo
MatchCombos ==
    { Ctrl_A, Shift_B,
      <<"A">>,
      <<"S","h","i","f","t","+","A">>,
      <<"A","l","t","+","A">>,
      <<"C","m","d","+","A">>,
      <<"C","m","d","+","C","t","r","l","+","A">>,
      <<"c","t","r","l","+","s","h","i","f","t","+","a">>,
      <<"C","o","n","t","r","o","l","+","A","l","t","+","A">>,
      <<"M","e","t","a","+","S","h","i","f","t","+","A">>,
      <<" ","s","h","i","f","t"," ","+"," ","A">>,
      <<"S","p","a","c","e">>,
      <<"E","s","c">>,
      <<"A","+","B">>,
      <<"C","t","r","l","+","S","h","i","f","t">>,
      <<"C","t","r","l","+","A","+">>,
      <<>> }

\* the key and code of the physical key-presses
PressedKeys ==
    { <<<<"a">>, <<"K","e","y","A">>>>,
      <<<<"A">>, <<"K","e","y","A">>>>,
      <<<<"q">>, <<"K","e","y","A">>>>,
      <<<<"b">>, <<"K","e","y","B">>>>,
      <<<<" ">>, <<"S","p","a","c","e">>>>,
      <<<<"E","s","c","a","p","e">>, <<"E","s","c","a","p","e">>>> }

MatchEvents ==
    { KeyboardEvent(k[1], k[2], ctrl, shift, alt, meta, Document) :
        k \in PressedKeys, ctrl \in BOOLEAN, shift \in BOOLEAN,
        alt \in BOOLEAN, meta \in BOOLEAN }

InitMatch ==
    /\ shortcutsRegistry = <<>>
    /\ version = 0
    /\ notifications = 0
    /\ shortcuts = initialShortcuts
    /\ updateTimer = 0
    /\ pendingTimers = {}
    /\ timerCount = 0
    /\ registerCount = 0
    /\ handlerMounted = FALSE
    /\ lastOp = [op |-> "init"]
    /\ mEvent \in MatchEvents
    /\ mCombo \in MatchCombos
    /\ mDone = FALSE
    /\ mParsed = emptyCombination
    /\ mResult = FALSE
    /\ providerMounted = FALSE
    /\ showShortcuts = FALSE

\* a caller evaluates parseKeyCombo(mCombo) and matchesKeyCombo(mEvent, mCombo)
evaluateMatch ==
    /\ ~mDone
    /\ mDone' = TRUE
    /\ mParsed' = parseKeyCombo(mCombo)
    /\ mResult' = matchesKeyCombo(mEvent, mCombo)
    /\ UNCHANGED <<mEvent, mCombo>>
    /\ UNCHANGED registryVars
    /\ UNCHANGED providerVars

NextMatch == evaluateMatch

SpecMatch == InitMatch /\ [][NextMatch]_vars

(***************************************************************************)
(* ShortcutsProvider and useShortcuts                                      *)
(***************************************************************************)
\* the initialShow prop of the provider, omitted or given
InitialShowProps == {Undefined, Given(TRUE), Given(FALSE)}

\* the value the provider passes to ShortcutsContext.Provider (the two
\* functions of the value are the actions toggleShortcuts and setShowShortcuts)
contextValue == [showShortcuts |-> showShortcuts]

\* useContext(ShortcutsContext): the value of the nearest provider, or the
\* default of createContext, undefined
useContext(insideProvider) ==
    IF insideProvider THEN Given(contextValue) ELSE Undefined

\* a useShortcuts that returns the context whatever it is
useShortcutsNeverThrows(context) ==
    [op |-> "useShortcuts", inside |-> context # Undefined, raised |-> FALSE,
     message |-> "", value |-> context]

\* useShortcuts(): throws when the context is undefined, else returns it
useShortcutsOutcome(context) ==
    IF context = Undefined
    THEN [op |-> "useShortcuts", inside |-> FALSE, raised |-> TRUE,
          message |-> "useShortcuts must be used within a ShortcutsProvider",
          value |-> Undefined]
    ELSE [op |-> "useShortcuts", inside |-> TRUE, raised |-> FALSE,
          message |-> "", value |-> context]

\* <ShortcutsProvider initialShow=...> is rendered: useKeyboardShortcutHandler()
\* mounts as in mountHandler, and useState(initialShow) sets showShortcuts
mountProvider(initialShow) ==
    /\ ~providerMounted
    /\ ~handlerMounted
    /\ providerMounted' = TRUE
    /\ handlerMounted' = TRUE
    /\ showShortcuts' = defaultParameter(initialShow, FALSE)
    /\ IF Len(shortcutsRegistry) > 0
       THEN updateRegistry
       ELSE UNCHANGED <<version, shortcuts, notifications>>
    /\ lastOp' = [op |-> "mountProvider", initialShow |-> initialShow]
    /\ UNCHANGED <<shortcutsRegistry, updateTimer, pendingTimers, timerCount,
                   registerCount>>
    /\ UNCHANGED matcherVars

\* a toggle that always shows the shortcuts
toggleShortcutsAlwaysShows ==
    /\ providerMounted
    /\ showShortcuts' = TRUE
    /\ lastOp' = [op |-> "toggleShortcuts", previous |-> showShortcuts]
    /\ UNCHANGED providerMounted
    /\ UNCHANGED registryVarsButLastOp
    /\ UNCHANGED matcherVars

\* toggleShortcuts(): setShowShortcuts((prev) => !prev)
toggleShortcuts ==
    /\ providerMounted
    /\ showShortcuts' = ~showShortcuts
    /\ lastOp' = [op |-> "toggleShortcuts", previous |-> showShortcuts]
    /\ UNCHANGED providerMounted
    /\ UNCHANGED registryVarsButLastOp
    /\ UNCHANGED matcherVars

\* setShowShortcuts(show)
setShowShortcuts(show) ==
    /\ providerMounted
    /\ showShortcuts' = show
    /\ lastOp' = [op |-> "setShowShortcuts", show |-> show, previous |-> showShortcuts]
    /\ UNCHANGED providerMounted
    /\ UNCHANGED registryVarsButLastOp
    /\ UNCHANGED matcherVars

\* a component calls useShortcuts(), under the provider or outside of it
useShortcuts(insideProvider) ==
    /\ insideProvider => providerMounted
    /\ lastOp' = useShortcutsOutcome(useContext(insideProvider))
    /\ UNCHANGED providerVars
    /\ UNCHANGED registryVarsButLastOp
    /\ UNCHANGED matcherVars

\* (category, name) pairs, arguments and key-presses of the provider scenarios
ProviderSlots == { <<"navigation", "n1">> }

ProviderPayloads ==
    { [keyCombo |-> Ctrl_A, description |-> "select all", enabled |-> Undefined,
       order |-> Undefined] }

ProviderKeyPresses ==
    { KeyboardEvent(<<"a">>, <<"K","e","y","A">>, TRUE, FALSE, FALSE, FALSE, Document) }

\* an application that renders the provider and its consumers, and uses the
\* registry
NextProvider ==
    \/ \E initialShow \in InitialShowProps : mountProvider(initialShow)
    \/ toggleShortcuts
    \/ \E show \in BOOLEAN : setShowShortcuts(show)
    \/ \E insideProvider \in BOOLEAN : useShortcuts(insideProvider)
    \/ \E s \in ProviderSlots, p \in ProviderPayloads : registerShortcut(s[1], s[2], p)
    \/ \E s \in ProviderSlots : unregisterShortcut(s[1], s[2])
    \/ \E s \in ProviderSlots : clearShortcuts(s[1])
    \/ \E id \in pendingTimers : timerFires(id)
    \/ \E s \in ProviderSlots, throws \in BOOLEAN : executeShortcut(s[1], s[2], throws)
    \/ \E e \in ProviderKeyPresses, throws \in BOOLEAN : keyDown(e, throws)

SpecProvider == Init /\ [][NextProvider]_vars

(***************************************************************************)
(* The debounce timer under fairness                                       *)
(***************************************************************************)
\* arguments of the callers of the timer scenarios
LivePayloads ==
    { [keyCombo |-> Ctrl_A, description |-> "select all", enabled |-> Undefined,
       order |-> Undefined] }

LiveSlots == { <<"navigation", "n1">>, <<"alpha", "n1">> }

\* the host runs the callback of a pending timer
timerCallback == \E id \in pendingTimers : timerFires(id)

NextLive ==
    \/ \E s \in LiveSlots, p \in LivePayloads : registerShortcut(s[1], s[2], p)
    \/ \E s \in LiveSlots : unregisterShortcut(s[1], s[2])
    \/ \E s \in LiveSlots : clearShortcuts(s[1])
    \/ timerCallback
    \/ mountHandler

\* window.setTimeout runs the callback of every timer that is not cleared
SpecLive == Init /\ [][NextLive]_vars /\ WF_vars(timerCallback)

(***************************************************************************)
(* Properties                                                              *)
(***************************************************************************)
IsIn(seq, e) == \E i \in 1..Len(seq) : seq[i] = e

\* the entries of the registry map, in any order
registeredEntries ==
    UNION { { shortcutsRegistry[i][2][j][2] : j \in 1..Len(shortcutsRegistry[i][2]) } :
              i \in 1..Len(shortcutsRegistry) }

\* the positions of getAllShortcuts() whose entry is enabled and matches the event
enabledMatches(all, event) ==
    { i \in 1..Len(all) : all[i].enabled /\ matchesKeyCombo(event, all[i].keyCombo) }

least(S) == CHOOSE i \in S : \A j \in S : i <= j

\* the position of a category in the snapshot's enumeration of categories
categoryRank(category) ==
    CHOOSE i \in 1..Len(ObjectKeys(shortcuts)) : ObjectKeys(shortcuts)[i] = category

\* C1: a key-press invokes at most one action, that of the first entry of
\* getAllShortcuts() that is enabled and matches the event, and never the
\* action of a disabled entry.
C1_FirstEnabledMatchOnly ==
    lastOp.op = "keydown" =>
        LET all  == getAllShortcuts
            hits == enabledMatches(all, lastOp.event)
        IN /\ Len(lastOp.invoked) <= 1
           /\ \A k \in 1..Len(lastOp.invoked) : lastOp.invoked[k].enabled
           /\ IF isTextEntryTarget(lastOp.event) \/ hits = {}
              THEN lastOp.invoked = <<>>
              ELSE lastOp.invoked = <<all[least(hits)]>>

\* a key-press invoked the action of one entry and passed over another entry
\* bound to the same combination: a disabled one placed before it, or an
\* enabled one placed after it
C1_Witness ==
    /\ lastOp.op = "keydown"
    /\ LET all == getAllShortcuts
       IN \E i, j \in 1..Len(all) :
            /\ i < j
            /\ matchesKeyCombo(lastOp.event, all[i].keyCombo)
            /\ matchesKeyCombo(lastOp.event, all[j].keyCombo)
            /\ \/ ~all[i].enabled /\ lastOp.invoked = <<all[j]>>
               \/ all[j].enabled /\ lastOp.invoked = <<all[i]>>

\* the pairs (e1, e2) of C2: enabled snapshot entries of distinct categories,
\* registered without order and bound to the same combination, both still
\* registered, e1 registered before e2
conflictingPairs ==
    LET all == getAllShortcuts
    IN { <<all[p[1]], all[p[2]]>> : p \in
           { <<i, j>> \in (1..Len(all)) \X (1..Len(all)) :
               /\ all[i].category # all[j].category
               /\ all[i].enabled /\ all[j].enabled
               /\ all[i].order = Undefined /\ all[j].order = Undefined
               /\ all[i].keyCombo = all[j].keyCombo
               /\ all[i].action < all[j].action
               /\ all[i] \in registeredEntries /\ all[j] \in registeredEntries } }

C3_UnregisteredNeverFires ==
    [][(lastOp.op = "unregisterShortcut" /\ lastOp'.op = "keydown") =>
          \A k \in 1..Len(lastOp'.invoked) :
              ~(/\ lastOp'.invoked[k].category = lastOp.category
                /\ lastOp'.invoked[k].name = lastOp.name)]_vars

\* C4: right after registerShortcut(c, n, ...) returns, getShortcuts(c) contains
\* the entry just registered.
C4_RegisteredEntryListedAtOnce ==
    lastOp.op = "registerShortcut" => IsIn(getShortcuts(lastOp.category), lastOp.entry)

\* C5: hasShortcut(c, n) is true right after registerShortcut(c, n, ...) and false
\* right after unregisterShortcut(c, n) or clearShortcuts(c), whether or not the
\* debounce timer has fired.
C5_HasShortcutFollowsCalls ==
    /\ lastOp.op = "registerShortcut" => hasShortcut(lastOp.category, lastOp.name)
    /\ lastOp.op = "unregisterShortcut" => ~hasShortcut(lastOp.category, lastOp.name)
    /\ lastOp.op = "clearShortcuts" =>
          \A s \in Slots : s[1] = lastOp.category => ~hasShortcut(s[1], s[2])

\* unregisterShortcut or clearShortcuts has just removed an entry that the
\* snapshot still lists, the timer not having fired
C5_Witness ==
    /\ lastOp.op \in {"unregisterShortcut", "clearShortcuts"}
    /\ pendingTimers # {}
    /\ \E s \in Slots :
         /\ s[1] = lastOp.category
         /\ \E i \in 1..Len(getShortcuts(s[1])) : getShortcuts(s[1])[i].name = s[2]
         /\ ~hasShortcut(s[1], s[2])

\* no two categories of a map or object share a key
distinctKeys(m) == \A i, j \in 1..Len(m) : m[i][1] = m[j][1] => i = j

\* the (category, name) pairs of the entries of a sequence are pairwise distinct
distinctEntries(entries) ==
    \A i, j \in 1..Len(entries) :
        (entries[i].category = entries[j].category /\ entries[i].name = entries[j].name)
            => i = j

\* every entry of the registry map is listed once under its category in the
\* snapshot, and the snapshot lists nothing else
snapshotIsCurrent ==
    \E registered \in {registeredEntries} :
        /\ \A e \in registered :
              \E listed \in {getShortcuts(e.category)} :
                  Cardinality({ i \in 1..Len(listed) : listed[i] = e }) = 1
        /\ \A k \in 1..Len(shortcuts) :
              \A i \in 1..Len(shortcuts[k][2]) : shortcuts[k][2][i] \in registered

\* C6: neither the registry map nor the snapshot holds two entries with the same
\* (category, name); once the snapshot is recomputed it lists exactly the entries
\* last registered, and executeShortcut and dispatch then invoke only those.
C6_OneEntryPerCategoryAndName ==
    /\ distinctKeys(shortcutsRegistry)
    /\ \A i \in 1..Len(shortcutsRegistry) :
          /\ distinctKeys(shortcutsRegistry[i][2])
          /\ \A j \in 1..Len(shortcutsRegistry[i][2]) :
                /\ shortcutsRegistry[i][2][j][2].name = shortcutsRegistry[i][2][j][1]
                /\ shortcutsRegistry[i][2][j][2].category = shortcutsRegistry[i][1]
    /\ distinctKeys(shortcuts)
    /\ distinctEntries(getAllShortcuts)
    /\ \A c \in Categories : distinctEntries(getShortcuts(c))
    /\ lastOp.op = "timer" => snapshotIsCurrent
    /\ lastOp.op = "executeShortcut" =>
          \A k \in 1..Len(lastOp.invoked) : lastOp.invoked[k] \in registeredEntries
    /\ (lastOp.op = "keydown" /\ snapshotIsCurrent) =>
          \A k \in 1..Len(lastOp.invoked) : lastOp.invoked[k] \in registeredEntries

\* a (category, name) was registered twice and the timer then fired: the registry
\* holds the one entry of the second call and the snapshot lists it
C6_Witness ==
    /\ lastOp.op = "timer"
    /\ registerCount = 2
    /\ timerCount = 2
    /\ Cardinality(registeredEntries) = 1
    /\ \E e \in registeredEntries :
         /\ e.action = 2
         /\ getShortcuts(e.category) = <<e>>
         /\ getAllShortcuts = <<e>>

absentOrderLast(entries) ==
    \A i, j \in 1..Len(entries) :
        i < j => ~(entries[i].order = Undefined /\ entries[j].order # Undefined)

\* C8: whatever numeric order values are registered, an entry without order comes
\* after every entry with an order, in getShortcuts(category) and in
\* getAllShortcuts().
C8_AbsentOrderSortsLast ==
    /\ absentOrderLast(getAllShortcuts)
    /\ \A c \in OrderCategories : absentOrderLast(getShortcuts(c))

\* C9 as claimed: getAllShortcuts() lists the entries registered without order
\* in the order of their registration, whatever their categories.
C9_RegistrationOrder ==
    LET all == getAllShortcuts
    IN \A i, j \in 1..Len(all) :
          (i < j /\ all[i].order = Undefined /\ all[j].order = Undefined)
              => all[i].action < all[j].action

\* the position of a name in the registry map of a category
nameRank(category, name) ==
    CHOOSE i \in 1..Len(MapGet(shortcutsRegistry, category)) :
        MapGet(shortcutsRegistry, category)[i][1] = name

\* C9 amended: getAllShortcuts() lists the entries registered without order
\* category by category in the snapshot's enumeration of categories and, once
\* the snapshot is recomputed, within a category in the insertion order of their
\* names in the registry map.
C9_CategoryThenInsertionOrder ==
    LET all == getAllShortcuts
    IN \A i, j \in 1..Len(all) :
          (i < j /\ all[i].order = Undefined /\ all[j].order = Undefined) =>
              /\ categoryRank(all[i].category) <= categoryRank(all[j].category)
              /\ (lastOp.op = "timer" /\ all[i].category = all[j].category) =>
                    nameRank(all[i].category, all[i].name)
                        < nameRank(all[j].category, all[j].name)

\* the snapshot, just recomputed, lists two entries without order in two
\* categories, the one registered later first
C9_Witness ==
    /\ lastOp.op = "timer"
    /\ \E i, j \in 1..Len(getAllShortcuts) :
         /\ i < j
         /\ getAllShortcuts[i].order = Undefined
         /\ getAllShortcuts[j].order = Undefined
         /\ getAllShortcuts[i].category # getAllShortcuts[j].category
         /\ getAllShortcuts[i].action > getAllShortcuts[j].action

\* C10: matchesKeyCombo requires exact modifier equality: ctrl-or-meta, shift and
\* alt of the event equal the combo's flags; ctrl or meta alone matches "Ctrl+A",
\* Ctrl+Shift+A does not, and a combo without modifiers matches only events
\* without modifiers.
C10_ExactModifierEquality ==
    mDone =>
        LET a == normalizeEventKey(mEvent.key) = <<"a">>
        IN /\ mResult =>
                /\ (mEvent.ctrlKey \/ mEvent.metaKey) = mParsed.ctrlKey
                /\ mEvent.shiftKey = mParsed.shiftKey
                /\ mEvent.altKey = mParsed.altKey
           /\ mCombo = Ctrl_A =>
                /\ mParsed.ctrlKey /\ ~mParsed.shiftKey /\ ~mParsed.altKey
                /\ (a /\ (mEvent.ctrlKey \/ mEvent.metaKey)
                      /\ ~mEvent.shiftKey /\ ~mEvent.altKey) => mResult
                /\ mEvent.shiftKey => ~mResult
           /\ mCombo = <<"A">> =>
                (mResult <=> (/\ \/ a
                                 \/ toLowerCase(mEvent.code) = <<"k","e","y","a">>
                              /\ ~mEvent.ctrlKey /\ ~mEvent.metaKey
                              /\ ~mEvent.shiftKey /\ ~mEvent.altKey))

\* Ctrl+Shift+A has been pressed and found not to match "Ctrl+A"
C10_Witness ==
    /\ mDone
    /\ mCombo = Ctrl_A
    /\ mEvent.key = <<"a">>
    /\ mEvent.ctrlKey /\ mEvent.shiftKey /\ ~mEvent.altKey /\ ~mEvent.metaKey
    /\ ~mResult

\* the base-key test of matchesKeyCombo, from the key and code of the event and
\* the base key of the combo, the event key normalised by cases
baseKeyTest(event, baseKey) ==
    LET lowered == toLowerCase(event.key)
        normalized == CASE lowered = <<" ">> -> <<"s","p","a","c","e">>
                        [] lowered = <<"e","s","c","a","p","e">> -> <<"e","s","c">>
                        [] OTHER -> lowered
    IN \/ normalized = baseKey
       \/ toLowerCase(event.code) = <<"k","e","y">> \o baseKey

\* the modifiers of the event are those of the parsed combo
modifiersAgree(event, combo) ==
    /\ (event.ctrlKey \/ event.metaKey) = combo.ctrlKey
    /\ event.shiftKey = combo.shiftKey
    /\ event.altKey = combo.altKey

noModifiers(event) ==
    ~event.ctrlKey /\ ~event.metaKey /\ ~event.shiftKey /\ ~event.altKey

\* C11: with the modifiers agreeing, matchesKeyCombo holds exactly when the
\* normalised event key equals the combo's base key or the lower-cased code is
\* 'key' followed by the base key; a space press matches "Space", "Escape"
\* matches "Esc", and a press of another key with another code does not match.
C11_BaseKeyTest ==
    mDone =>
        /\ modifiersAgree(mEvent, mParsed) =>
              (mResult <=> baseKeyTest(mEvent, mParsed.key))
        /\ (mCombo = <<"S","p","a","c","e">> /\ mEvent.key = <<" ">> /\ noModifiers(mEvent))
              => mResult
        /\ (mCombo = <<"E","s","c">> /\ mEvent.key = <<"E","s","c","a","p","e">>
              /\ noModifiers(mEvent)) => mResult
        /\ (mCombo = <<"A">> /\ mEvent.key = <<"b">>) => ~mResult
        /\ (mCombo = <<"A">> /\ mEvent.key = <<"q">> /\ noModifiers(mEvent)) => mResult

\* a press producing "Escape" has been found to match "Esc"
C11_Witness ==
    /\ mDone
    /\ mCombo = <<"E","s","c">>
    /\ mEvent.key = <<"E","s","c","a","p","e">>
    /\ mResult

\* String.prototype.toUpperCase
toUpperCase(s) ==
    [i \in 1..Len(s) |->
        IF \E j \in 1..Len(LowerLetters) : LowerLetters[j] = s[i]
        THEN UpperLetters[CHOOSE j \in 1..Len(LowerLetters) : LowerLetters[j] = s[i]]
        ELSE s[i]]

\* Array.prototype.join
RECURSIVE join(_, _)
join(parts, sep) ==
    IF parts = <<>> THEN <<>>
    ELSE IF Len(parts) = 1 THEN parts[1]
    ELSE parts[1] \o <<sep>> \o join(Tail(parts), sep)

\* the name a token stands for: trimmed and lower-cased
tokenName(token) == trim(toLowerCase(token))

ModifierNames ==
    { <<"c","t","r","l">>, <<"c","o","n","t","r","o","l">>, <<"s","h","i","f","t">>,
      <<"a","l","t">>, <<"c","m","d">>, <<"m","e","t","a">> }

isModifierToken(token) == tokenName(token) \in ModifierNames

\* the combo with a space put on both sides of every token
padTokens(combo) ==
    LET parts == split(combo, "+")
    IN join([i \in 1..Len(parts) |-> <<" ">> \o parts[i] \o <<" ">>], "+")

\* the combo with 'ctrl' and 'control' exchanged, and 'cmd' and 'meta'
swapAliases(combo) ==
    LET parts == split(combo, "+")
        other(t) == CASE tokenName(t) = <<"c","t","r","l">> -> <<"c","o","n","t","r","o","l">>
                      [] tokenName(t) = <<"c","o","n","t","r","o","l">> -> <<"c","t","r","l">>
                      [] tokenName(t) = <<"c","m","d">> -> <<"m","e","t","a">>
                      [] tokenName(t) = <<"m","e","t","a">> -> <<"c","m","d">>
                      [] OTHER -> t
    IN join([i \in 1..Len(parts) |-> other(parts[i])], "+")

\* the combo with its modifier tokens in the reverse order, the other tokens
\* staying where they are
reverseModifiers(combo) ==
    LET parts == split(combo, "+")
        mods == SelectSeq(parts, isModifierToken)
        modsBefore(i) == Cardinality({ j \in 1..i : isModifierToken(parts[j]) })
    IN join([i \in 1..Len(parts) |->
                IF isModifierToken(parts[i])
                THEN mods[Len(mods) + 1 - modsBefore(i)]
                ELSE parts[i]], "+")

\* some token of the combo stands for one of the names
tokenOccurs(combo, names) ==
    \E i \in 1..Len(split(combo, "+")) : tokenName(split(combo, "+")[i]) \in names

\* C12: parseKeyCombo gives the same base key and flags for a combo in upper
\* case, in lower case, with spaces around its tokens, with 'ctrl'/'control' and
\* 'cmd'/'meta' exchanged and with its modifier tokens permuted; a flag is set
\* only when its modifier occurs.
C12_ParseInvariantUnderVariants ==
    mDone =>
        /\ \A variant \in { toUpperCase(mCombo), toLowerCase(mCombo), padTokens(mCombo),
                            swapAliases(mCombo), reverseModifiers(mCombo),
                            padTokens(reverseModifiers(toUpperCase(mCombo))) } :
              parseKeyCombo(variant) = mParsed
        /\ mParsed.ctrlKey <=>
              tokenOccurs(mCombo, {<<"c","t","r","l">>, <<"c","o","n","t","r","o","l">>})
        /\ mParsed.shiftKey <=> tokenOccurs(mCombo, {<<"s","h","i","f","t">>})
        /\ mParsed.altKey <=> tokenOccurs(mCombo, {<<"a","l","t">>})
        /\ mParsed.metaKey <=> tokenOccurs(mCombo, {<<"c","m","d">>, <<"m","e","t","a">>})

\* a combo of two modifiers and a key has been parsed, and its variants differ
\* from it as strings
C12_Witness ==
    /\ mDone
    /\ mCombo = <<"C","o","n","t","r","o","l","+","A","l","t","+","A">>
    /\ reverseModifiers(mCombo) = <<"A","l","t","+","C","o","n","t","r","o","l","+","A">>
    /\ swapAliases(mCombo) = <<"c","t","r","l","+","A","l","t","+","A">>
    /\ padTokens(mCombo) # mCombo
    /\ mParsed = [key |-> <<"a">>, ctrlKey |-> TRUE, shiftKey |-> FALSE,
                  altKey |-> TRUE, metaKey |-> FALSE]

\* the tokens of a combo that are not modifiers, as the names they stand for
nonModifierNames(combo) ==
    LET parts == split(combo, "+")
        others == SelectSeq(parts, LAMBDA t : ~isModifierToken(t))
    IN [i \in 1..Len(others) |-> tokenName(others[i])]

\* C13: parseKeyCombo returns a result for every string; its base key is the
\* last token that is not a recognized modifier.
C13_LastNonModifierTokenIsKey ==
    mDone =>
        LET others == nonModifierNames(mCombo)
        IN /\ DOMAIN mParsed = {"key", "ctrlKey", "shiftKey", "altKey", "metaKey"}
           /\ mParsed.key = IF others = <<>> THEN <<>> ELSE others[Len(others)]

\* "A+B" has been parsed to the base key 'b'
C13_Witness ==
    /\ mDone
    /\ mCombo = <<"A","+","B">>
    /\ Len(nonModifierNames(mCombo)) = 2
    /\ mParsed.key = <<"b">>

\* C14: the result of parseKeyCombo has a non-empty base key for every combo
\* string, also for strings of modifier tokens only, the empty string and strings
\* with an empty token.
C14_BaseKeyNeverEmpty ==
    mDone => mParsed.key # <<>>

\* an element whose content the user can edit: contentEditable is "true" or
\* "plaintext-only"
hasEditableContent(target) == target.contentEditable \in {"true", "plaintext-only"}

\* input, textarea, select, or any element with editable content
textEntryCapable(target) ==
    target.interface \in TextEntryTargets \/ hasEditableContent(target)

\* C15: a key-press whose target is an input, a textarea, a select or any element
\* with editable content invokes no action and leaves the event's default
\* behaviour and propagation alone, whatever entries are registered.
C15_TextEntryTargetNeverIntercepted ==
    (lastOp.op = "keydown" /\ textEntryCapable(lastOp.event.target)) =>
        /\ lastOp.invoked = <<>>
        /\ ~lastOp.defaultPrevented
        /\ ~lastOp.propagationStopped

\* C16: a key-press has its default behaviour and its propagation suppressed
\* exactly when an action is invoked; when no enabled entry of the snapshot
\* matches, also when disabled entries match, nothing is called.
C16_SuppressedIffInvoked ==
    lastOp.op = "keydown" =>
        /\ lastOp.defaultPrevented <=> lastOp.invoked # <<>>
        /\ lastOp.propagationStopped <=> lastOp.invoked # <<>>
        /\ enabledMatches(getAllShortcuts, lastOp.event) = {} =>
              /\ lastOp.effects = <<>>
              /\ ~lastOp.defaultPrevented
              /\ ~lastOp.propagationStopped

\* a key-press on the document matched only a disabled entry and was left alone
C16_Witness ==
    /\ lastOp.op = "keydown"
    /\ ~isTextEntryTarget(lastOp.event)
    /\ \E i \in 1..Len(getAllShortcuts) :
          /\ ~getAllShortcuts[i].enabled
          /\ matchesKeyCombo(lastOp.event, getAllShortcuts[i].keyCombo)
    /\ enabledMatches(getAllShortcuts, lastOp.event) = {}
    /\ lastOp.invoked = <<>>
    /\ ~lastOp.defaultPrevented

\* C17: a key-press whose action throws does not let the exception out of the
\* handler and changes neither the registry map, the snapshot, the version, the
\* timers nor the listener; the key-press after it is dispatched as any other:
\* to the first enabled match of the snapshot, the same entry again when the
\* event is the same.
C17_ThrowingActionIsContained ==
    [][ /\ (lastOp'.op = "keydown" /\ lastOp'.threw) =>
              /\ ~lastOp'.propagated
              /\ UNCHANGED <<shortcutsRegistry, shortcuts, version, updateTimer,
                             pendingTimers, timerCount, handlerMounted>>
        /\ (lastOp.op = "keydown" /\ lastOp.threw /\ lastOp'.op = "keydown") =>
              /\ handlerMounted
              /\ LET hits == enabledMatches(getAllShortcuts, lastOp'.event)
                 IN lastOp'.invoked =
                       IF isTextEntryTarget(lastOp'.event) \/ hits = {}
                       THEN <<>>
                       ELSE <<getAllShortcuts[least(hits)]>>
              /\ lastOp'.event = lastOp.event => lastOp'.invoked = lastOp.invoked
      ]_vars

\* the action invoked by a key-press threw
C17_Witness ==
    /\ lastOp.op = "keydown"
    /\ lastOp.threw
    /\ lastOp.invoked # <<>>
    /\ handlerMounted

\* C18: the calls of one key-press are none, or preventDefault, stopPropagation
\* and then the action of the first enabled match, in this order and nothing
\* after it, also when the action throws and when later entries match.
C18_SuppressThenInvokeThenStop ==
    lastOp.op = "keydown" =>
        LET hits == enabledMatches(getAllShortcuts, lastOp.event)
        IN IF isTextEntryTarget(lastOp.event) \/ hits = {}
           THEN lastOp.effects = <<>>
           ELSE lastOp.effects =
                   << [call |-> "preventDefault", id |-> 0],
                      [call |-> "stopPropagation", id |-> 0],
                      [call |-> "action", id |-> getAllShortcuts[least(hits)].action] >>

\* the action of the first of two enabled matches threw
C18_Witness ==
    /\ lastOp.op = "keydown"
    /\ lastOp.threw
    /\ Cardinality(enabledMatches(getAllShortcuts, lastOp.event)) >= 2
    /\ Len(lastOp.effects) = 3
    /\ lastOp.effects[3].id = getAllShortcuts[1].action

\* C19: executeShortcut(c, n) invokes the action once and returns true when
\* (c, n) is registered and enabled and the action returns; it invokes nothing
\* and returns false when (c, n) is absent or disabled; it returns false, the
\* exception caught, when the action throws; the registry map, the snapshot and
\* the version are as before the call.
C19_ExecuteShortcutOutcome ==
    [][ lastOp'.op = "executeShortcut" =>
          LET c == lastOp'.category
              n == lastOp'.name
              runnable == /\ MapHas(shortcutsRegistry, c)
                          /\ MapHas(MapGet(shortcutsRegistry, c), n)
                          /\ MapGet(MapGet(shortcutsRegistry, c), n).enabled
          IN /\ UNCHANGED <<shortcutsRegistry, shortcuts, version>>
             /\ ~lastOp'.propagated
             /\ IF runnable
                THEN /\ lastOp'.invoked = <<MapGet(MapGet(shortcutsRegistry, c), n)>>
                     /\ lastOp'.result = ~lastOp'.threw
                ELSE /\ lastOp'.invoked = <<>>
                     /\ ~lastOp'.threw
                     /\ ~lastOp'.result
      ]_vars

\* executeShortcut has returned false for a registered entry that is disabled,
\* while another entry of the registry is enabled
C19_Witness ==
    /\ lastOp.op = "executeShortcut"
    /\ hasShortcut(lastOp.category, lastOp.name)
    /\ ~MapGet(MapGet(shortcutsRegistry, lastOp.category), lastOp.name).enabled
    /\ lastOp.invoked = <<>>
    /\ ~lastOp.result
    /\ \E e \in registeredEntries : e.enabled

\* C20: unregisterShortcut(c, n) on a (c, n) that is not registered leaves the
\* registry map, the snapshot, the version and the timers as they are; the call
\* schedules a recomputation exactly when (c, n) was registered.
C20_UnregisterSchedulesIffRemoved ==
    [][ lastOp'.op = "unregisterShortcut" =>
          LET c == lastOp'.category
              n == lastOp'.name
              was == hasShortcut(c, n)
          IN /\ ~was => UNCHANGED <<shortcutsRegistry, shortcuts, version,
                                    updateTimer, pendingTimers, timerCount>>
             /\ was <=> timerCount' = timerCount + 1
             /\ was => /\ updateTimer' = timerCount'
                       /\ updateTimer' \in pendingTimers'
                       /\ ~(/\ MapHas(shortcutsRegistry', c)
                            /\ MapHas(MapGet(shortcutsRegistry', c), n))
             /\ timerCount' \in {timerCount, timerCount + 1}
      ]_vars

\* unregisterShortcut was called for a name that is absent from a category that
\* has other entries, with no timer pending
C20_Witness ==
    /\ lastOp.op = "unregisterShortcut"
    /\ MapHas(shortcutsRegistry, lastOp.category)
    /\ ~hasShortcut(lastOp.category, lastOp.name)
    /\ pendingTimers = {}
    /\ timerCount > 0

\* C21: every category of the registry map holds at least one entry; the
\* category of the last entry unregistered is gone from the map, and a
\* registration makes its category present.
C21_NoEmptyCategoryInRegistry ==
    /\ \A i \in 1..Len(shortcutsRegistry) : Len(shortcutsRegistry[i][2]) >= 1
    /\ lastOp.op = "registerShortcut" =>
          /\ MapHas(shortcutsRegistry, lastOp.category)
          /\ MapHas(MapGet(shortcutsRegistry, lastOp.category), lastOp.name)
    /\ lastOp.op = "unregisterShortcut" =>
          (MapHas(shortcutsRegistry, lastOp.category) =>
              \E k \in 1..Len(MapGet(shortcutsRegistry, lastOp.category)) :
                  MapGet(shortcutsRegistry, lastOp.category)[k][1] # lastOp.name)

\* the only entry of a category was unregistered: the snapshot still lists it,
\* the registry map has lost the category and keeps another one
C21_Witness ==
    /\ lastOp.op = "unregisterShortcut"
    /\ ~MapHas(shortcutsRegistry, lastOp.category)
    /\ \E i \in 1..Len(getShortcuts(lastOp.category)) :
          getShortcuts(lastOp.category)[i].name = lastOp.name
    /\ updateTimer \in pendingTimers
    /\ Len(shortcutsRegistry) >= 1

\* C22: after clearShortcuts(c), hasShortcut(c, n) is false for every n and
\* getShortcuts(c) is the empty sequence.
C22_ClearedCategoryReadsEmpty ==
    lastOp.op = "clearShortcuts" =>
        /\ \A s \in Slots : s[1] = lastOp.category => ~hasShortcut(s[1], s[2])
        /\ ~MapHas(shortcutsRegistry, lastOp.category)
        /\ getShortcuts(lastOp.category) = <<>>

\* the categories a caller may ask about: those of the snapshot and of the
\* registry map
knownCategories ==
    { ObjectKeys(shortcuts)[i] : i \in 1..Len(ObjectKeys(shortcuts)) }
        \cup { shortcutsRegistry[i][1] : i \in 1..Len(shortcutsRegistry) }

\* C23: in every state getShortcutCategories() lists a category exactly when
\* hasShortcut(category, n) is true for some n; a default category without
\* entries is not listed.
C23_CategoriesAreThoseWithEntries ==
    \A c \in knownCategories :
        IsIn(getShortcutCategories, c) <=>
            (\E e \in registeredEntries : e.category = c /\ hasShortcut(c, e.name))

\* categories and names callers look up, registered or not
LookupCategories == Categories \cup {"custom", "nowhere", "constructor"}

\* C24: for a category without registered entries getShortcuts returns the empty
\* sequence, and executeShortcut on a (category, name) that is not registered
\* returns false without raising.
C24_AbsentLookupsAreEmpty ==
    /\ \A c \in LookupCategories :
          ~MapHas(shortcutsRegistry, c) =>
              /\ getShortcuts(c) = <<>>
              /\ \A s \in Slots : ~hasShortcut(c, s[2])
    /\ (lastOp.op = "executeShortcut" /\ ~hasShortcut(lastOp.category, lastOp.name)) =>
          /\ ~lastOp.result
          /\ ~lastOp.propagated
          /\ lastOp.invoked = <<>>

\* C25: an entry registered without an enabled argument is enabled; an entry
\* registered with enabled = false stays in the registry map and, once the
\* snapshot is recomputed, in getShortcuts and getAllShortcuts; neither a
\* key-press nor executeShortcut invokes a disabled entry, and a key-press
\* invokes an action whenever the snapshot has an enabled match, whatever
\* disabled entries precede it.
C25_DisabledRetainedNeverInvoked ==
    /\ lastOp.op = "registerShortcut" =>
          /\ lastOp.enabledArgument = Undefined => lastOp.entry.enabled
          /\ lastOp.enabledArgument # Undefined =>
                lastOp.entry.enabled = lastOp.enabledArgument[1]
          /\ MapGet(MapGet(shortcutsRegistry, lastOp.category), lastOp.name) = lastOp.entry
    /\ \A e \in registeredEntries :
          ~e.enabled =>
              /\ hasShortcut(e.category, e.name)
              /\ snapshotIsCurrent =>
                    /\ IsIn(getShortcuts(e.category), e)
                    /\ IsIn(getAllShortcuts, e)
    /\ lastOp.op \in {"keydown", "executeShortcut"} =>
          \A k \in 1..Len(lastOp.invoked) : lastOp.invoked[k].enabled
    /\ (lastOp.op = "keydown" /\ ~isTextEntryTarget(lastOp.event)
          /\ enabledMatches(getAllShortcuts, lastOp.event) # {}) =>
          lastOp.invoked # <<>>

\* a key-press invoked an enabled entry that comes after a disabled entry bound
\* to the same combination, both registered and in the current snapshot
C25_Witness ==
    /\ lastOp.op = "keydown"
    /\ snapshotIsCurrent
    /\ \E i, j \in 1..Len(getAllShortcuts) :
          /\ i < j
          /\ ~getAllShortcuts[i].enabled
          /\ getAllShortcuts[i].keyCombo = getAllShortcuts[j].keyCombo
          /\ lastOp.invoked = <<getAllShortcuts[j]>>

\* C26: at most one recomputation is pending in every state; a call that sets a
\* timer leaves this timer as the only pending one, the timer that was pending
\* before it cancelled.
C26_AtMostOnePendingRecomputation ==
    [][ /\ Cardinality(pendingTimers) <= 1
        /\ Cardinality(pendingTimers') <= 1
        /\ timerCount' # timerCount =>
              /\ timerCount' = timerCount + 1
              /\ updateTimer' = timerCount'
              /\ pendingTimers' = {timerCount'}
              /\ pendingTimers \cap pendingTimers' = {}
      ]_vars

\* a second timer was set while the first was pending: no recomputation has run
\* and the second is the only pending one
C26_Witness ==
    /\ timerCount >= 2
    /\ version = 0
    /\ pendingTimers = {timerCount}

\* C27: the timer callback that ends a burst of register, unregister and clear
\* calls rebuilds the snapshot once, increasing version by 1, and the store
\* notifies its subscribers once.
C27_OneRebuildOneNotification ==
    [][ lastOp'.op = "timer" =>
          /\ version' = version + 1
          /\ notifications' = notifications + 1
      ]_vars

\* C28: useShortcuts called outside a ShortcutsProvider raises the error
\* 'useShortcuts must be used within a ShortcutsProvider'; called inside a
\* provider it raises nothing and returns the provider's value.
C28_UseShortcutsOutsideProviderThrows ==
    lastOp.op = "useShortcuts" =>
        IF lastOp.inside
        THEN /\ providerMounted
             /\ ~lastOp.raised
             /\ lastOp.value = <<[showShortcuts |-> showShortcuts]>>
        ELSE /\ lastOp.raised
             /\ lastOp.message = "useShortcuts must be used within a ShortcutsProvider"
             /\ lastOp.value = <<>>

\* a component outside the provider called useShortcuts while a provider that
\* shows the shortcuts is rendered elsewhere
C28_Witness ==
    /\ lastOp.op = "useShortcuts"
    /\ ~lastOp.inside
    /\ lastOp.raised
    /\ providerMounted
    /\ showShortcuts

RegistryAndDispatchOps ==
    {"registerShortcut", "unregisterShortcut", "clearShortcuts", "timer",
     "executeShortcut", "keydown"}

\* C29: showShortcuts starts at initialShow, false when omitted; toggleShortcuts
\* negates it, and a second toggle gives back the value before the first;
\* setShowShortcuts(v) makes it v; registry operations, timer callbacks and
\* key-presses leave it as it is.
C29_ShowShortcutsFlag ==
    [][ /\ lastOp'.op = "mountProvider" =>
              showShortcuts' = IF lastOp'.initialShow = <<>> THEN FALSE
                               ELSE lastOp'.initialShow[1]
        /\ lastOp'.op = "toggleShortcuts" => showShortcuts' = ~showShortcuts
        /\ (lastOp.op = "toggleShortcuts" /\ lastOp'.op = "toggleShortcuts") =>
              showShortcuts' = lastOp.previous
        /\ lastOp'.op = "setShowShortcuts" => showShortcuts' = lastOp'.show
        /\ lastOp'.op \in RegistryAndDispatchOps => showShortcuts' = showShortcuts
      ]_vars

\* the flag was toggled back to false after the registry had been used and the
\* snapshot rebuilt
C29_Witness ==
    /\ lastOp.op = "toggleShortcuts"
    /\ lastOp.previous
    /\ ~showShortcuts
    /\ registerCount >= 1
    /\ version >= 1

\* C30: under fairness of the timer callback, whenever a recomputation is pending
\* a state follows in which none is pending and the snapshot lists exactly the
\* entries of the registry map; no recomputation pending always means that the
\* snapshot is current.
C30_TimerEventuallyFires ==
    /\ (pendingTimers # {}) ~> (pendingTimers = {} /\ snapshotIsCurrent)
    /\ [](pendingTimers = {} => snapshotIsCurrent)

\* the timer set by the last of several calls has fired: nothing is pending and
\* the snapshot lists the entries of the registry map
C30_Witness ==
    /\ lastOp.op = "timer"
    /\ timerCount >= 2
    /\ lastOp.id = timerCount
    /\ pendingTimers = {}
    /\ Len(shortcutsRegistry) >= 1
    /\ snapshotIsCurrent

(***************************************************************************)
(* Replacement within one category: the slots of "alpha" only, one payload *)
(* without an order, and one registerShortcut call more than elsewhere, so *)
(* that an entry can be replaced, or removed and registered again, while   *)
(* another entry of its category stays registered                          *)
(***************************************************************************)

ReplaceSlots == { <<"alpha", "n1">>, <<"alpha", "n2">> }

ReplacePayloads == LivePayloads

NextReplace ==
    \/ \E s \in ReplaceSlots, p \in ReplacePayloads :
           registerShortcutUpTo(MaxRegistrations + 1, s[1], s[2], p)
    \/ \E s \in ReplaceSlots : unregisterShortcut(s[1], s[2])
    \/ \E s \in ReplaceSlots : clearShortcuts(s[1])
    \/ \E id \in pendingTimers : timerFires(id)
    \/ mountHandler

SpecReplace == Init /\ [][NextReplace]_vars

\* the names of a category's entries in the raw map, in insertion order
registeredNames(all, category) ==
    IF MapHas(all, category) THEN MapKeys(MapGet(all, category)) ELSE <<>>

\* the names of the entries a snapshot lists for a category, in listed order
listedNames(state, category) ==
    IF MapHas(state, category)
    THEN [i \in 1..Len(MapGet(state, category)) |-> MapGet(state, category)[i].name]
    ELSE <<>>

\* C31: registering a (category, name) that is present leaves the names of
\* the category in their insertion order and replaces the entry in its place,
\* registering one that is absent (never registered, or unregistered before)
\* puts it after all entries of the category; and an up-to-date snapshot
\* lists entries without an order in that insertion order.
C31_ReplaceKeepsSlotReinsertGoesLast ==
    [][ /\ lastOp'.op = "registerShortcut" =>
              LET c == lastOp'.category
                  n == lastOp'.name
                  before == registeredNames(shortcutsRegistry, c)
                  after == registeredNames(shortcutsRegistry', c)
              IN /\ IF IsIn(before, n) THEN after = before
                                        ELSE after = Append(before, n)
                 /\ MapGet(MapGet(shortcutsRegistry', c), n) = lastOp'.entry
        /\ lastOp'.op = "timer" =>
              \A s \in ReplaceSlots :
                  listedNames(shortcuts', s[1]) =
                      registeredNames(shortcutsRegistry', s[1])
      ]_vars

\* n1 was registered, then n2, then n1 again: the newest entry is still first,
\* in the raw map and in the snapshot rebuilt afterwards
C31_Witness ==
    /\ lastOp.op = "timer"
    /\ registeredNames(shortcutsRegistry, "alpha") = <<"n1", "n2">>
    /\ listedNames(shortcuts, "alpha") = <<"n1", "n2">>
    /\ MapGet(MapGet(shortcutsRegistry, "alpha"), "n1").action >
           MapGet(MapGet(shortcutsRegistry, "alpha"), "n2").action

\* lastOp of a step that ran updateRegistry: a timer callback, or a mount
\* with a registry map that is not empty
ranUpdateRegistry(op) ==
    \/ op.op = "timer"
    \/ op.op = "mount" /\ op.recomputed

\* C32: a step that runs updateRegistry leaves the raw map as it is, and when
\* the step before it ran updateRegistry too (no mutation in between) it
\* leaves the category-to-entries snapshot as the first run made it; only the
\* version moves on.  The snapshot it stores is determined by the raw map: the
\* default categories, then the categories of the map (none of them a default
\* one here), each with the entries of the map in insertion order (none of
\* them has an order here).
C32_UpdateRegistryIdempotent ==
    [][ ranUpdateRegistry(lastOp') =>
           /\ shortcutsRegistry' = shortcutsRegistry
           /\ version' = version + 1
           /\ ranUpdateRegistry(lastOp) => shortcuts' = shortcuts
           /\ shortcuts' =
                 [i \in 1..Len(DEFAULT_SHORTCUT_CATEGORIES) |->
                     <<DEFAULT_SHORTCUT_CATEGORIES[i], <<>> >>]
                 \o [i \in 1..Len(shortcutsRegistry) |->
                        <<shortcutsRegistry[i][1], MapValues(shortcutsRegistry[i][2])>>]
      ]_vars

\* one entry registered, the handler mounted (first run), then the timer of
\* the registration fired (second run on the same map)
C32_Witness ==
    /\ lastOp.op = "timer"
    /\ handlerMounted
    /\ version = 2
    /\ registerCount = 1
    /\ timerCount = 1
    /\ Len(getShortcuts("alpha")) = 1

\* C33: a key-press, whether it invokes an action or not and whether the
\* action throws or not, leaves the raw map, the snapshot, the version, the
\* notifications and the timers as they are; a second key-press with the same
\* event right after it selects the same entry, or none again.
C33_DispatchIsStateless ==
    [][ lastOp'.op = "keydown" =>
           /\ UNCHANGED <<shortcutsRegistry, shortcuts, version, notifications,
                          updateTimer, pendingTimers, timerCount, registerCount>>
           /\ (lastOp.op = "keydown" /\ lastOp.event = lastOp'.event) =>
                  lastOp'.invoked = lastOp.invoked
      ]_vars

\* a key-press invoked an action that returned normally while a recomputation
\* was pending, and the snapshot still lists the invoked entry
C33_Witness ==
    /\ lastOp.op = "keydown"
    /\ lastOp.invoked # <<>>
    /\ ~lastOp.threw
    /\ pendingTimers # {}
    /\ \E i \in 1..Len(getAllShortcuts) : <<getAllShortcuts[i]>> = lastOp.invoked

\* the positions of getShortcuts(category) that hold an entry with the name
namedPositions(category, name) ==
    LET listed == getShortcuts(category)
    IN { i \in 1..Len(listed) :
           /\ "name" \in DOMAIN listed[i]
           /\ listed[i].name = name }

OrderNames == { s[2] : s \in OrderSlots }

\* C34: whenever no timer is pending, for every category and name
\* hasShortcut(category, name) is true exactly when getShortcuts(category)
\* holds an entry with that name; it holds one such entry, and the entry is the
\* one the raw map holds, that is, the payload of the last registration.
C34_NoPendingTimerSnapshotAgrees ==
    pendingTimers = {} =>
        \A c \in OrderCategories \cup {"custom", "nowhere", "constructor"} :
            \A n \in OrderNames :
                \E at \in {namedPositions(c, n)} :
                    /\ hasShortcut(c, n) <=> at # {}
                    /\ hasShortcut(c, n) =>
                          /\ Cardinality(at) = 1
                          /\ \A i \in at :
                                getShortcuts(c)[i] =
                                    MapGet(MapGet(shortcutsRegistry, c), n)

\* nothing is pending after a name was registered a second time with another
\* payload: the snapshot lists the second payload
C34_Witness ==
    /\ pendingTimers = {}
    /\ lastOp.op = "timer"
    /\ registerCount = 2
    /\ timerCount = 2
    /\ Len(shortcutsRegistry) = 1
    /\ hasShortcut("alpha", "n1")
    /\ ~hasShortcut("alpha", "n2")
    /\ Len(getShortcuts("alpha")) = 1
    /\ getShortcuts("alpha")[1].action = 2
    /\ getShortcuts("alpha")[1].description = "one"

\* the registered entries that are enabled and match the event
dispatchable(event) ==
    { e \in registeredEntries : e.enabled /\ matchesKeyCombo(event, e.keyCombo) }

\* C35: a mount recomputes the snapshot in the same step exactly when the raw
\* map is not empty (the version goes up by one and the snapshot is the one
\* built from the map), and it leaves the timers alone: a timer pending before
\* the mount is pending after it.  A key-press on the document right after
\* the mount, with the timer still pending, invokes an entry of the raw map
\* when an enabled one matches; the timer that fires after the mount is the
\* pending one and recomputes again.
C35_MountRecomputesAndKeepsTimer ==
    [][ /\ lastOp'.op = "mount" =>
              /\ lastOp'.recomputed <=> Len(shortcutsRegistry) > 0
              /\ UNCHANGED <<shortcutsRegistry, pendingTimers, updateTimer, timerCount>>
              /\ IF Len(shortcutsRegistry) > 0
                 THEN /\ version' = version + 1
                      /\ shortcuts' = buildShortcutsState(shortcutsRegistry)
                      /\ \A e \in registeredEntries :
                            \E k \in 1..Len(shortcuts') :
                                /\ shortcuts'[k][1] = e.category
                                /\ IsIn(shortcuts'[k][2], e)
                 ELSE UNCHANGED <<version, shortcuts>>
        /\ (lastOp.op = "mount" /\ lastOp'.op = "keydown"
               /\ ~isTextEntryTarget(lastOp'.event)
               /\ dispatchable(lastOp'.event) # {}) =>
              /\ lastOp'.invoked # <<>>
              /\ lastOp'.invoked[1] \in dispatchable(lastOp'.event)
        /\ (lastOp.op = "mount" /\ lastOp'.op = "timer") =>
              /\ lastOp'.id \in pendingTimers
              /\ version' = version + 1
      ]_vars

\* the handler mounted after a registration whose timer has not fired: the
\* snapshot lists the entry and the timer is still pending
C35_Witness ==
    /\ lastOp.op = "mount"
    /\ lastOp.recomputed
    /\ version = 1
    /\ pendingTimers = {timerCount}
    /\ registeredEntries # {}
    /\ \A e \in registeredEntries : IsIn(getShortcuts(e.category), e)

MetaNames == { <<"c","m","d">>, <<"m","e","t","a">> }

ControlNames == { <<"c","t","r","l">>, <<"c","o","n","t","r","o","l">> }

\* a token of the combination has one of the names
hasToken(combo, names) ==
    \E i \in 1..Len(split(combo, "+")) : tokenName(split(combo, "+")[i]) \in names

\* the combination without its 'cmd' and 'meta' tokens
withoutMetaTokens(combo) ==
    join(SelectSeq(split(combo, "+"), LAMBDA t : tokenName(t) \notin MetaNames), "+")

\* C36: matchesKeyCombo gives the same result for a combination and for the
\* combination without its 'cmd' and 'meta' tokens, on every event; and a
\* combination with 'cmd' or 'meta' and without 'ctrl' or 'control' matches
\* only events with neither ctrlKey nor metaKey.
C36_MetaFlagIsNotRead ==
    mDone =>
        /\ mResult = matchesKeyCombo(mEvent, withoutMetaTokens(mCombo))
        /\ (hasToken(mCombo, MetaNames) /\ ~hasToken(mCombo, ControlNames) /\ mResult) =>
              (~mEvent.ctrlKey /\ ~mEvent.metaKey)

\* 'Cmd+A' matched a plain press of a, with the meta key up
C36_Witness ==
    /\ mDone
    /\ mCombo = <<"C","m","d","+","A">>
    /\ mParsed.metaKey
    /\ mEvent.key = <<"a">>
    /\ ~mEvent.metaKey
    /\ ~mEvent.ctrlKey
    /\ mResult

(***************************************************************************)
(* Category enumeration: one name in each of five categories, two of them  *)
(* with names that are array indices, two custom ones, one default one     *)
(***************************************************************************)

EnumerateSlots ==
    { <<"10", "n1">>, <<"7", "n1">>, <<"alpha", "n1">>, <<"beta", "n1">>,
      <<"navigation", "n1">> }

NextEnumerate ==
    \/ \E s \in EnumerateSlots, p \in LivePayloads : registerShortcut(s[1], s[2], p)
    \/ \E s \in EnumerateSlots : unregisterShortcut(s[1], s[2])
    \/ \E s \in EnumerateSlots : clearShortcuts(s[1])
    \/ \E id \in pendingTimers : timerFires(id)
    \/ mountHandler

SpecEnumerate == Init /\ [][NextEnumerate]_vars

isDefaultCategory(category) == IsIn(DEFAULT_SHORTCUT_CATEGORIES, category)

\* the default categories in which nothing is registered hold the empty sequence
emptyDefaultsAreEmpty ==
    \A i \in 1..Len(DEFAULT_SHORTCUT_CATEGORIES) :
        ~MapHas(shortcutsRegistry, DEFAULT_SHORTCUT_CATEGORIES[i]) =>
            getShortcuts(DEFAULT_SHORTCUT_CATEGORIES[i]) = <<>>

\* C37 as claimed: always, the snapshot has a key for each default category,
\* empty when nothing is registered there; its enumeration starts with the
\* default categories in declaration order and goes on with the other
\* categories in the order of their creation in the raw map.
C37_DefaultsEnumeratedFirst ==
    /\ \A i \in 1..Len(DEFAULT_SHORTCUT_CATEGORIES) :
          MapHas(shortcuts, DEFAULT_SHORTCUT_CATEGORIES[i])
    /\ emptyDefaultsAreEmpty
    /\ ObjectKeys(shortcuts) =
          DEFAULT_SHORTCUT_CATEGORIES
             \o SelectSeq(MapKeys(shortcutsRegistry), LAMBDA c : ~isDefaultCategory(c))

\* C37 amended: always, the snapshot has a key for each default category, and
\* its enumeration is: the categories whose names are array indices, in
\* ascending numeric order, then the default categories in declaration order,
\* then the other categories.  When no recomputation is pending, a default
\* category in which nothing is registered is empty and the other categories
\* are those of the raw map in the order of their creation there.
C37_DefaultsAfterIndexNames ==
    LET keys == ObjectKeys(shortcuts)
        n == Cardinality({ i \in 1..Len(keys) : IsArrayIndex(keys[i]) })
    IN /\ \A i \in 1..Len(DEFAULT_SHORTCUT_CATEGORIES) :
             MapHas(shortcuts, DEFAULT_SHORTCUT_CATEGORIES[i])
       /\ Len(keys) >= n + Len(DEFAULT_SHORTCUT_CATEGORIES)
       /\ \A i \in 1..n : IsArrayIndex(keys[i])
       /\ \A i, j \in 1..n : i < j => ArrayIndexValue[keys[i]] < ArrayIndexValue[keys[j]]
       /\ SubSeq(keys, n + 1, n + Len(DEFAULT_SHORTCUT_CATEGORIES)) =
             DEFAULT_SHORTCUT_CATEGORIES
       /\ pendingTimers = {} =>
             /\ emptyDefaultsAreEmpty
             /\ SubSeq(keys, n + Len(DEFAULT_SHORTCUT_CATEGORIES) + 1, Len(keys)) =
                   SelectSeq(MapKeys(shortcutsRegistry),
                             LAMBDA c : ~isDefaultCategory(c) /\ ~IsArrayIndex(c))
             /\ { keys[i] : i \in 1..n } =
                   { c \in { s[1] : s \in EnumerateSlots } :
                       IsArrayIndex(c) /\ MapHas(shortcutsRegistry, c) }

\* category "10" was registered before category "7": the recomputed snapshot
\* enumerates "7", then "10", then the default categories
C37_Witness ==
    /\ pendingTimers = {}
    /\ MapKeys(shortcutsRegistry) = <<"10", "7">>
    /\ ObjectKeys(shortcuts) = <<"7", "10">> \o DEFAULT_SHORTCUT_CATEGORIES

\* what a registry map holds for (category, name): the entry, or nothing
entryAt(all, category, name) ==
    IF MapHas(all, category) /\ MapHas(MapGet(all, category), name)
    THEN <<MapGet(MapGet(all, category), name)>>
    ELSE <<>>

\* C38: registerShortcut(c, n, ...) and unregisterShortcut(c, n) leave what
\* the raw map holds for every other (category, name) as it was, and
\* clearShortcuts(c) leaves what it holds for every other category as it was;
\* after each of them every entry is stored under its own category and name.
C38_OtherEntriesUntouched ==
    [][ lastOp'.op \in {"registerShortcut", "unregisterShortcut", "clearShortcuts"} =>
           /\ \A s \in OrderSlots :
                 (\/ s[1] # lastOp'.category
                  \/ lastOp'.op # "clearShortcuts" /\ s[2] # lastOp'.name) =>
                     entryAt(shortcutsRegistry', s[1], s[2]) =
                         entryAt(shortcutsRegistry, s[1], s[2])
           /\ \A i \in 1..Len(shortcutsRegistry') :
                 \A j \in 1..Len(shortcutsRegistry'[i][2]) :
                     /\ shortcutsRegistry'[i][2][j][2].category = shortcutsRegistry'[i][1]
                     /\ shortcutsRegistry'[i][2][j][2].name = shortcutsRegistry'[i][2][j][1]
      ]_vars

\* two entries were registered in two categories and one category was
\* cleared: the entry of the other category is still there
C38_Witness ==
    /\ lastOp.op = "clearShortcuts"
    /\ ~MapHas(shortcutsRegistry, lastOp.category)
    /\ registerCount = 2
    /\ timerCount = 3
    /\ Len(shortcutsRegistry) = 1
    /\ Cardinality(registeredEntries) = 1

====
